---- MODULE Spec2Model ----
(***************************************************************************)
(* Model of config.py (Configuration File Handler Module, version 2.0.0):  *)
(* the behaviour registry (BEHAVIOUR_OPTIONS, __behaviour_settings,        *)
(* behaviour_config), load_config_json and save_config_json, for one       *)
(* configuration file path.                                                *)
(*                                                                         *)
(* A Python dict is a sequence of <<key, value>> pairs with pairwise       *)
(* distinct keys (insertion order).  A JSON text is kept as what the       *)
(* decoder sees: the members of the top-level object in textual order      *)
(* (duplicate member names allowed), the elements of a top-level array,    *)
(* or a text that does not decode.                                         *)
(***************************************************************************)
EXTENDS Integers, Sequences, FiniteSets, TLC

\* ------------------------------------------------------------------ bounds
MaxFileLen == 2      \* members of an object text found on disk / handed to save

KeyOrder == <<"a", "b", "c">>
KeyNames == {KeyOrder[i] : i \in 1..Len(KeyOrder)}
Values == {1, 2}             \* JSON values
NonJson == 0                 \* a value json.dump cannot serialise (e.g. a set)

\* ------------------------------------------------------- Python dict helpers
Range(s) == {s[i] : i \in 1..Len(s)}

keys(d) == [i \in 1..Len(d) |-> d[i][1]]

KeySet(d) == {d[i][1] : i \in 1..Len(d)}

IndexOf(d, k) == CHOOSE i \in 1..Len(d) : d[i][1] = k

GetItem(d, k) == d[IndexOf(d, k)][2]

\* d[k] = v : an existing key keeps its position, a new key goes last
SetItem(d, k, v) ==
  IF k \in KeySet(d)
    THEN [i \in 1..Len(d) |-> IF d[i][1] = k THEN <<k, v>> ELSE d[i]]
    ELSE Append(d, <<k, v>>)

\* del d[k]
DelItem(d, k) == SelectSeq(d, LAMBDA p : p[1] # k)

RECURSIVE update(_, _)
\* d.update(other): other's items assigned one by one in other's order
update(d, other) ==
  IF other = <<>> THEN d
  ELSE update(SetItem(d, other[1][1], other[1][2]), Tail(other))

\* all orders in which a Python set with these elements may be iterated
Orderings(S) ==
  {s \in [1..Cardinality(S) -> S] : \A i, j \in 1..Cardinality(S) : s[i] = s[j] => i = j}

\* ------------------------------------------------------------------ documents
Doc(t, items) == [t |-> t, items |-> items]
None == Doc("none", <<>>)
Scalar == Doc("scalar", <<>>)              \* neither dict, list nor None
IsDict(x) == x.t = "dict"
IsList(x) == x.t = "list"
DocEq(x, y) == x.t = y.t /\ x.items = y.items

DictsOver(ks, vals) ==
  {[i \in 1..Len(ks) |-> <<ks[i], vs[i]>>] : vs \in [1..Len(ks) -> vals]}

Lists == {<<>>, <<1>>}

\* ------------------------------------------------------------------ JSON codec
File(t, body) == [t |-> t, body |-> body]
Absent == File("absent", <<>>)
Malformed == File("malformed", <<>>)

\* json.load: dict built member by member, so a repeated name keeps its first
\* position and takes its last value
RECURSIVE DecodeObject(_, _)
DecodeObject(acc, members) ==
  IF members = <<>> THEN acc
  ELSE DecodeObject(SetItem(acc, members[1][1], members[1][2]), Tail(members))

json_load(f) ==
  IF f.t = "object" THEN Doc("dict", DecodeObject(<<>>, f.body))
  ELSE Doc("list", f.body)

Serializable(x) ==
  IF IsDict(x) THEN \A i \in 1..Len(x.items) : x.items[i][2] # NonJson ELSE TRUE

\* json.dump into the file opened with 'w': the file is truncated on open, and
\* an unserialisable value leaves the text cut off in front of it
json_dump(x) ==
  IF ~Serializable(x) THEN Malformed
  ELSE IF IsDict(x) THEN File("object", x.items)
  ELSE File("array", x.items)

\* ------------------------------------------------------------ behaviour registry
BEHAVIOUR_OPTIONS ==
  [NotFound       |-> {"create", "error"},
   SyntaxError    |-> {"reset", "error"},
   MissingKeys    |-> {"append", "append+sort", "reset", "ignore", "error"},
   ExtraKeys      |-> {"delete", "delete+sort", "reset", "ignore", "error"},
   DisorderedKeys |-> {"sort", "ignore", "error"}]

Kinds == DOMAIN BEHAVIOUR_OPTIONS

DefaultSettings ==
  [NotFound       |-> "create",
   SyntaxError    |-> "reset",
   MissingKeys    |-> "append",
   ExtraKeys      |-> "delete",
   DisorderedKeys |-> "sort"]

\* (mutant) only the kind is validated
ConfigError_KindOnly(exception, behaviour) ==
  IF exception \notin DOMAIN BEHAVIOUR_OPTIONS THEN "ValueError: Invalid exception"
  ELSE ""

\* the two validations of behaviour_config; "" when the call is accepted
ConfigError(exception, behaviour) ==
  IF exception \notin DOMAIN BEHAVIOUR_OPTIONS THEN "ValueError: Invalid exception"
  ELSE IF behaviour \notin BEHAVIOUR_OPTIONS[exception] THEN "ValueError: Invalid behaviour"
  ELSE ""

\* ------------------------------------------------------------ save_config_json
\* result of save_config_json(file, data) on storage fs: the exception ("" if
\* none) and the storage afterwards
save_result(fileIsStr, data, fs) ==
  IF ~fileIsStr THEN [exc |-> "TypeError: 'file'", fs |-> fs]
  ELSE IF ~(IsDict(data) \/ IsList(data)) THEN [exc |-> "TypeError: 'data'", fs |-> fs]
  ELSE [exc |-> IF Serializable(data) THEN "" ELSE "TypeError: not JSON serializable",
        fs  |-> json_dump(data)]

\* ------------------------------------------------------------ load_config_json
\* The frame of one call.  The caller's default object and the object built by
\* the call are two heap cells; `ref` says which of them the local `data` is
\* bound to, so that an in-place change of `data` reaches the default exactly
\* when the two names are bound to the same object.
Frame(fs, default) ==
  [fs |-> fs, default |-> default, fresh |-> None, ref |-> "fresh",
   loaded |-> None, warnings |-> <<>>, exc |-> "", excKeys |-> <<>>]

Data(st) == IF st.ref = "default" THEN st.default ELSE st.fresh

\* data[...] = ... / del data[...] : changes the object `data` is bound to
MutateData(st, items) ==
  IF st.ref = "default" THEN [st EXCEPT !.default.items = items]
  ELSE [st EXCEPT !.fresh.items = items]

\* data = <new object>
BindFresh(st, doc) == [st EXCEPT !.ref = "fresh", !.fresh = doc]

\* data = default
BindDefault(st) == [st EXCEPT !.ref = "default"]

Warn(st, kind, msg) == [st EXCEPT !.warnings = (kind :> msg) @@ st.warnings]

Raise(st, e, ks) == [st EXCEPT !.exc = e, !.excKeys = ks]

ParamError(args) ==
  IF ~args.fileIsStr THEN "TypeError: 'file'"
  ELSE IF args.default.t = "scalar" THEN "TypeError: 'default'"
  ELSE IF ~args.checkIsBool THEN "TypeError: 'check'"
  ELSE ""

\* (mutant) the fallback adopts the default without persisting it
Fallback_NoSave(st, S, args, kind, error) ==
  LET w == Warn(st, kind, <<>>) IN
  IF S[kind] = "error" THEN Raise(w, error, <<>>)
  ELSE BindDefault(w)

\* (mutant) the default is persisted before the policy is consulted
Fallback_SaveFirst(st, S, args, kind, error) ==
  LET w  == Warn(st, kind, <<>>)
      sv == save_result(args.fileIsStr, w.default, w.fs) IN
  IF sv.exc # "" THEN Raise([w EXCEPT !.fs = sv.fs], sv.exc, <<>>)
  ELSE IF S[kind] = "error" THEN Raise([w EXCEPT !.fs = sv.fs], error, <<>>)
  ELSE BindDefault([w EXCEPT !.fs = sv.fs])

\* except FileNotFoundError / except json.JSONDecodeError
Fallback(st, S, args, kind, error) ==
  LET w == Warn(st, kind, <<>>) IN
  IF S[kind] = "error" THEN Raise(w, error, <<>>)
  ELSE LET sv == save_result(args.fileIsStr, w.default, w.fs) IN
       IF sv.exc # "" THEN Raise([w EXCEPT !.fs = sv.fs], sv.exc, <<>>)
       ELSE BindDefault([w EXCEPT !.fs = sv.fs])

\* the try statement
ReadStep(st, S, args) ==
  IF st.fs.t = "absent" THEN Fallback(st, S, args, "NotFound", "FileNotFoundError")
  ELSE IF st.fs.t = "malformed" THEN Fallback(st, S, args, "SyntaxError", "ConfigSyntaxError")
  ELSE LET d == json_load(st.fs) IN [BindFresh(st, d) EXCEPT !.loaded = d]

missing_keys(default, data) == KeySet(default.items) \ KeySet(data.items)

extra_keys(default, data) == KeySet(data.items) \ KeySet(default.items)

\* (mutant) append fills the gaps in the default's order
AppendMissing_Sorted(st, ord) ==
  BindFresh(st, Doc("dict", update(st.default.items, Data(st).items)))

RECURSIVE AppendMissing(_, _)
\* for key in missing_keys: data[key] = default[key]
AppendMissing(st, ord) ==
  IF ord = <<>> THEN st
  ELSE AppendMissing(
         MutateData(st, SetItem(Data(st).items, ord[1], GetItem(st.default.items, ord[1]))),
         Tail(ord))

\* (mutant) temp_data = default, without the copy
AppendSortMissing_InPlace(st) ==
  MutateData(BindDefault(st), update(st.default.items, Data(st).items))

\* temp_data = default.copy(); temp_data.update(data); data = temp_data
AppendSortMissing(st) ==
  BindFresh(st, Doc("dict", update(st.default.items, Data(st).items)))

MissingStep(st, S, om) ==
  IF om = <<>> THEN st
  ELSE LET w == Warn(st, "MissingKeys", om)
           p == S["MissingKeys"] IN
       CASE p = "append"      -> AppendMissing(w, om)
         [] p = "append+sort" -> AppendSortMissing(w)
         [] p = "reset"       -> BindDefault(w)
         [] p = "ignore"      -> w
         [] p = "error"       -> Raise(w, "ValueError: Missing keys", om)

\* (mutant) the ExtraKeys policies are never skipped
ExtraPolicyApplies_Always(S, om) == TRUE

\* the guard around the ExtraKeys policies
ExtraPolicyApplies(S, om) == ~(S["MissingKeys"] = "reset")

RECURSIVE DeleteExtra(_, _)
\* for key in extra_keys: del data[key]
DeleteExtra(st, ord) ==
  IF ord = <<>> THEN st
  ELSE DeleteExtra(MutateData(st, DelItem(Data(st).items, ord[1])), Tail(ord))

\* temp_data = {}; for key in default.keys(): if key in data: ...; data = temp_data
DeleteSortExtra(st) ==
  LET d  == Data(st).items
      ks == SelectSeq(keys(st.default.items), LAMBDA k : k \in KeySet(d))
  IN BindFresh(st, Doc("dict", [i \in 1..Len(ks) |-> <<ks[i], GetItem(d, ks[i])>>]))

ExtraStep(st, S, om, oe) ==
  IF oe = <<>> THEN st
  ELSE LET w == Warn(st, "ExtraKeys", oe)
           p == S["ExtraKeys"] IN
       IF ~ExtraPolicyApplies(S, om) THEN w
       ELSE CASE p = "delete"      -> DeleteExtra(w, oe)
              [] p = "delete+sort" -> DeleteSortExtra(w)
              [] p = "reset"       -> BindDefault(w)
              [] p = "ignore"      -> w
              [] p = "error"       -> Raise(w, "ValueError: Extra keys", oe)

\* (mutant) the order is checked whenever no key is extra
OrderChecked_ExtraOnly(om, oe) == ~(oe # <<>>)

\* if not (missing_keys or extra_keys)
OrderChecked(om, oe) == ~(om # <<>> \/ oe # <<>>)

\* (mutant) sorting hands back the default
SortKeys_AsDefault(st) == BindDefault(st)

\* data = {k: data[k] for k in default.keys()}
SortKeys(st) ==
  BindFresh(st, Doc("dict",
    [i \in 1..Len(st.default.items) |->
       <<st.default.items[i][1], GetItem(Data(st).items, st.default.items[i][1])>>]))

OrderStep(st, S, om, oe) ==
  IF ~OrderChecked(om, oe) THEN st
  ELSE IF keys(st.default.items) = keys(Data(st).items) THEN st
  ELSE LET w == Warn(st, "DisorderedKeys", <<>>)
           p == S["DisorderedKeys"] IN
       CASE p = "sort"   -> SortKeys(w)
         [] p = "ignore" -> w
         [] p = "error"  -> Raise(w, "ValueError: Keys are not in the same order", <<>>)

\* whether the check block runs to the computation of the key sets
Checks(st, args) ==
  st.exc = "" /\ args.check /\ IsDict(Data(st)) /\ IsDict(st.default)

\* the check block, given the iteration orders of the two key sets
CheckStep(st, S, args, om, oe) ==
  IF st.exc # "" \/ ~(args.check /\ IsDict(Data(st))) THEN st
  ELSE IF st.default.t = "none"
    THEN Raise(st, "ValueError: Default data must be provided", <<>>)
  ELSE IF ~IsDict(st.default) THEN Raise(st, "AttributeError", <<>>)
  ELSE LET m == MissingStep(st, S, om) IN
       IF m.exc # "" THEN m
       ELSE LET e == ExtraStep(m, S, om, oe) IN
            IF e.exc # "" THEN e
            ELSE OrderStep(e, S, om, oe)

\* (mutant) the checked document is saved before it is returned
Return_Saved(st) ==
  IF st.exc = "" /\ IsDict(Data(st)) THEN [st EXCEPT !.fs = json_dump(Data(st))] ELSE st

\* return warnings, data
Return(st) == st

\* every frame load_config_json(file, default, check) can end in on storage fs
\* under settings S; one per iteration order of missing_keys and extra_keys
LoadResults(fs, S, args) ==
  IF ParamError(args) # "" THEN {Raise(Frame(fs, args.default), ParamError(args), <<>>)}
  ELSE LET r == ReadStep(Frame(fs, args.default), S, args) IN
       IF ~Checks(r, args) THEN {Return(CheckStep(r, S, args, <<>>, <<>>))}
       ELSE {Return(CheckStep(r, S, args, om, oe)) :
               om \in Orderings(missing_keys(r.default, Data(r))),
               oe \in Orderings(extra_keys(r.default, Data(r)))}

\* ------------------------------------------------------------------ inputs
\* object texts found on disk: members in textual order, names may repeat
ObjectTexts == UNION {[1..n -> KeyNames \X Values] : n \in 0..MaxFileLen}

FileContents ==
  {Absent, Malformed} \cup {File("array", l) : l \in Lists}
                      \cup {File("object", b) : b \in ObjectTexts}

\* default dicts: the caller's schema and its prefixes.  The default's keys
\* are named in KeyOrder's order; the file's keys come in every order, with
\* every value.
FullDefault == <<<<"a", 1>>, <<"b", 2>>, <<"c", 1>>>>

DefaultDicts == {SubSeq(FullDefault, 1, n) : n \in 0..Len(FullDefault)}

\* dicts holding a value json.dump rejects
Unserializable == DictsOver(SubSeq(KeyOrder, 1, 1), {NonJson})

Defaults ==
  {Doc("dict", d) : d \in DefaultDicts \cup Unserializable}
    \cup {Doc("list", l) : l \in Lists} \cup {None, Scalar}

Args(fileIsStr, default, checkIsBool, check) ==
  [fileIsStr |-> fileIsStr, default |-> default, checkIsBool |-> checkIsBool, check |-> check]

LoadArgs ==
  {Args(TRUE, d, TRUE, c) : d \in Defaults, c \in BOOLEAN}
    \cup {Args(FALSE, None, TRUE, TRUE), Args(TRUE, None, FALSE, TRUE)}

\* arguments of save_config_json: <<file is a str, data>>
SaveCalls ==
  {<<TRUE, d>> : d \in Defaults} \cup {<<FALSE, Doc("dict", FullDefault)>>}

\* arguments of behaviour_config: every catalogued pair, an unknown kind, an
\* unknown policy for every kind, and policies of another kind's catalog
ConfigCalls ==
  UNION {{<<k, p>> : p \in BEHAVIOUR_OPTIONS[k]} : k \in Kinds}
    \cup {<<k, p>> : k \in Kinds, p \in {"reset", "delete"}}
    \cup {<<k, "bogus">> : k \in Kinds}
    \cup {<<"Unknown", p>> : p \in {"error", "bogus"}}

\* ------------------------------------------------------------------ state
VARIABLES
  behaviour_settings,   \* __behaviour_settings
  fs,                   \* content stored at the configuration file's path
  last                  \* the call that returned or raised last, with its effect

vars == <<behaviour_settings, fs, last>>

NoArgs == Args(TRUE, None, TRUE, TRUE)

Call(op, exception, behaviour, args, fsBefore, st) ==
  [op |-> op, exception |-> exception, behaviour |-> behaviour, args |-> args,
   fsBefore |-> fsBefore, loaded |-> st.loaded,
   exc |-> st.exc, excKeys |-> st.excKeys, warnings |-> st.warnings,
   data |-> IF st.exc = "" THEN Data(st) ELSE None,
   ref |-> IF st.exc = "" THEN st.ref ELSE "fresh",
   defaultAfter |-> st.default]

NoCall == Call("none", "", "", NoArgs, Absent, Frame(Absent, None))

\* the caller is between two calls
Idle == last.op = "none"

Init ==
  /\ behaviour_settings = DefaultSettings
  /\ fs \in FileContents
  /\ last = NoCall

behaviour_config(exception, behaviour) ==
  LET e == ConfigError(exception, behaviour) IN
  /\ Idle
  /\ behaviour_settings' =
       IF e = "" THEN [behaviour_settings EXCEPT ![exception] = behaviour]
       ELSE behaviour_settings
  /\ last' = Call("behaviour_config", exception, behaviour, NoArgs, Absent,
                  Raise(Frame(Absent, None), e, <<>>))
  /\ UNCHANGED fs

load_config_json(args) ==
  /\ Idle
  /\ \E r \in LoadResults(fs, behaviour_settings, args) :
       /\ fs' = r.fs
       /\ last' = Call("load", "", "", args, fs, r)
  /\ UNCHANGED behaviour_settings

save_config_json(fileIsStr, data) ==
  LET sv == save_result(fileIsStr, data, fs) IN
  /\ Idle
  /\ fs' = sv.fs
  /\ last' = Call("save", "", "", NoArgs, Absent, Raise(Frame(Absent, None), sv.exc, <<>>))
  /\ UNCHANGED behaviour_settings

\* the call has returned or raised; the single-threaded caller goes on to its
\* next call
Continue ==
  /\ ~Idle
  /\ last' = NoCall
  /\ UNCHANGED <<behaviour_settings, fs>>

Next ==
  \/ \E c \in ConfigCalls : behaviour_config(c[1], c[2])
  \/ \E args \in LoadArgs : load_config_json(args)
  \/ \E c \in SaveCalls : save_config_json(c[1], c[2])
  \/ Continue

Spec == Init /\ [][Next]_vars

\* ------------------------------------------------------------------ properties
FileEq(x, y) == x.t = y.t /\ x.body = y.body

Reported == DOMAIN last.warnings

\* load was called with well-shaped parameters
Loaded == last.op = "load" /\ ParamError(last.args) = ""

\* load read and decoded a mapping and went on to check it against a dict default
CheckedMapping ==
  /\ Loaded
  /\ last.args.check
  /\ IsDict(last.loaded)
  /\ IsDict(last.args.default)

Missing == missing_keys(last.args.default, last.loaded)

Extra == extra_keys(last.args.default, last.loaded)

SameValues(d, e) == \A k \in KeySet(d) : GetItem(d, k) = GetItem(e, k)

C2_ExtraPolicyTakesEffect ==
  (CheckedMapping /\ Extra # {}
     /\ ~(Missing # {} /\ behaviour_settings["MissingKeys"] \in {"reset", "error"}))
  => LET p == behaviour_settings["ExtraKeys"] IN
     /\ p \in {"delete", "delete+sort"} =>
          last.exc = "" /\ KeySet(last.data.items) \subseteq KeySet(last.args.default.items)
     /\ p = "reset" => last.exc = "" /\ DocEq(last.data, last.args.default)
     /\ p = "error" => last.exc = "ValueError: Extra keys" /\ Range(last.excKeys) = Extra

\* C3: with both missing and extra keys and MissingKeys = reset, load succeeds
\* under every ExtraKeys policy, returns the default itself and reports both
\* MissingKeys and ExtraKeys.
C3_ResetWinsOverExtra ==
  (CheckedMapping /\ Missing # {} /\ Extra # {}
     /\ behaviour_settings["MissingKeys"] = "reset")
  => /\ last.exc = ""
     /\ last.ref = "default"
     /\ DocEq(last.data, last.args.default)
     /\ {"MissingKeys", "ExtraKeys"} \subseteq Reported

C3_Witness ==
  /\ CheckedMapping /\ Missing # {} /\ Extra # {}
  /\ behaviour_settings["MissingKeys"] = "reset"
  /\ behaviour_settings["ExtraKeys"] = "error"
  /\ last.exc = ""

\* the load fell back on the default: path absent under NotFound = create, or
\* undecodable content under SyntaxError = reset
FellBack(kind) ==
  /\ Loaded
  /\ \/ kind = "NotFound" /\ last.fsBefore.t = "absent"
        /\ behaviour_settings["NotFound"] = "create"
     \/ kind = "SyntaxError" /\ last.fsBefore.t = "malformed"
        /\ behaviour_settings["SyntaxError"] = "reset"

ValidDocument(d) == (IsDict(d) \/ IsList(d)) /\ Serializable(d)

\* C4: a fallback on a valid default D reports exactly the fallback's kind with
\* an empty message, returns D, leaves D stored at the path, and a load of the
\* path with D that follows reports nothing and returns D.
C4_FallbackPersistsDefault ==
  \A kind \in {"NotFound", "SyntaxError"} :
    (FellBack(kind) /\ ValidDocument(last.args.default))
    => /\ last.exc = ""
       /\ Reported = {kind}
       /\ last.warnings[kind] = <<>>
       /\ DocEq(last.data, last.args.default)
       /\ fs.t \in {"object", "array"}
       /\ DocEq(json_load(fs), last.args.default)
       /\ \A r \in LoadResults(fs, behaviour_settings, Args(TRUE, last.args.default, TRUE, TRUE)) :
            r.exc = "" /\ DOMAIN r.warnings = {} /\ DocEq(Data(r), last.args.default)

C4_Witness ==
  /\ FellBack("SyntaxError")
  /\ IsDict(last.args.default)
  /\ Len(last.args.default.items) > 1
  /\ ValidDocument(last.args.default)
  /\ DocEq(json_load(fs), last.args.default)

\* C5: a load that fails on a policy escalation, a missing default or a
\* parameter of the wrong shape leaves the stored content, or its absence, as
\* it was.  (A default that json.dump cannot serialise is not such a failure:
\* the file is already open for writing when the encoder raises.)
C5_FailedLoadKeepsStorage ==
  (last.op = "load" /\ last.exc # "" /\ last.exc # "TypeError: not JSON serializable")
  => FileEq(fs, last.fsBefore)

C5_Witness ==
  /\ last.op = "load"
  /\ last.exc = "FileNotFoundError"
  /\ fs.t = "absent"
  /\ ValidDocument(last.args.default)

\* C6: under MissingKeys = append, a loaded mapping that lacks keys of the
\* default (and has no extra key, or ExtraKeys = ignore) is returned with its
\* own items first, unchanged and in their order, followed by exactly the
\* missing keys with the default's values; MissingKeys lists the missing keys.
C6_AppendMissing ==
  (CheckedMapping /\ Missing # {}
     /\ behaviour_settings["MissingKeys"] = "append"
     /\ (Extra = {} \/ behaviour_settings["ExtraKeys"] = "ignore"))
  => LET n == Len(last.loaded.items)
         d == last.data.items IN
     /\ last.exc = ""
     /\ Len(d) = n + Cardinality(Missing)
     /\ SubSeq(d, 1, n) = last.loaded.items
     /\ {d[i][1] : i \in n+1..Len(d)} = Missing
     /\ \A i \in n+1..Len(d) : d[i][2] = GetItem(last.args.default.items, d[i][1])
     /\ KeySet(last.args.default.items) \subseteq KeySet(d)
     /\ "MissingKeys" \in Reported
     /\ Range(last.warnings["MissingKeys"]) = Missing
     /\ Len(last.warnings["MissingKeys"]) = Cardinality(Missing)

C6_Witness ==
  /\ CheckedMapping /\ Missing # {}
  /\ behaviour_settings["MissingKeys"] = "append"
  /\ Extra = {}
  /\ last.exc = ""
  /\ Len(last.loaded.items) > 1
  /\ keys(last.data.items) # keys(last.args.default.items)

SettingsValid ==
  /\ DOMAIN behaviour_settings = Kinds
  /\ \A k \in Kinds : behaviour_settings[k] \in BEHAVIOUR_OPTIONS[k]

\* C7: every state holds one catalogued policy per kind, and a behaviour_config
\* call with an unknown kind or a policy outside the kind's catalog fails and
\* changes no setting.
C7_SettingsAlwaysValid ==
  [][/\ SettingsValid /\ SettingsValid'
     /\ (last'.op = "behaviour_config"
           /\ (last'.exception \notin Kinds
                 \/ last'.behaviour \notin BEHAVIOUR_OPTIONS[last'.exception]))
        => last'.exc # "" /\ behaviour_settings' = behaviour_settings]_vars

C7_Witness ==
  /\ last.op = "behaviour_config"
  /\ last.exception = "NotFound"
  /\ last.behaviour = "reset"
  /\ last.exc # ""
  /\ behaviour_settings # DefaultSettings

\* C8: no warning report of load holds DisorderedKeys together with
\* MissingKeys or ExtraKeys.
C8_OrderOnlyWhenKeySetsAgree ==
  last.op = "load" =>
    ~("DisorderedKeys" \in Reported /\ Reported \cap {"MissingKeys", "ExtraKeys"} # {})

C8_Witness ==
  /\ CheckedMapping /\ last.exc = ""
  /\ Missing # {}
  /\ KeySet(last.data.items) = KeySet(last.args.default.items)
  /\ keys(last.data.items) # keys(last.args.default.items)
  /\ Reported = {"MissingKeys"}

\* load decoded a mapping, checked it and returned a document that differs
\* from the decoded one
Repaired ==
  /\ CheckedMapping /\ last.exc = ""
  /\ Reported \cap {"MissingKeys", "ExtraKeys", "DisorderedKeys"} # {}
  /\ ~DocEq(last.data, last.loaded)

\* C9 (as claimed): after a repairing load the stored content equals the
\* returned document and a repeated load reports nothing.
C9_RepairsWrittenBack ==
  Repaired =>
    /\ DocEq(json_load(fs), last.data)
    /\ \A r \in LoadResults(fs, behaviour_settings, last.args) : DOMAIN r.warnings = {}

\* C9 (amended): a repairing load leaves the stored content as it was read;
\* the repair is in the returned document only, and a repeated load with the
\* same default and policies succeeds and reports the same kinds again.
C9_RepairsNotWrittenBack ==
  Repaired =>
    /\ FileEq(fs, last.fsBefore)
    /\ \A r \in LoadResults(fs, behaviour_settings, last.args) :
         r.exc = "" /\ DOMAIN r.warnings = Reported

C9_Witness ==
  /\ Repaired
  /\ Reported = {"ExtraKeys"}
  /\ FileEq(fs, last.fsBefore)

\* C10: whatever load does and however it ends, the caller's default document
\* has the keys, key order and values it had before the call.
C10_DefaultUntouched ==
  last.op = "load" => DocEq(last.defaultAfter, last.args.default)

C10_Witness ==
  /\ CheckedMapping /\ last.exc = ""
  /\ "MissingKeys" \in Reported
  /\ last.ref = "default"
  /\ DocEq(last.defaultAfter, last.args.default)

====
